---- MODULE Spec2Model ----
(***************************************************************************)
(* Model of the dice roller server, src/dice-roller/dice_roller_server.py. *)
(*                                                                         *)
(* A Python string is a sequence of glyphs: a one-character string, or an  *)
(* emoji written as its short code (":x:" is the cross mark, ":game_die:" *)
(* the die).  The literal text of a format string is kept as one piece.    *)
(* The random source is a seeded generator: a tape of raw values read      *)
(* cyclically and the number of draws consumed so far.                     *)
(***************************************************************************)
EXTENDS Integers, Sequences, FiniteSets, TLC

VARIABLES rng, inflight, last, tasks, drawlog

vars == <<rng, inflight, last, tasks, drawlog>>

----------------------------------------------------------------------------
(* Bounds of the model.                                                    *)

\* Length of a sampled seed tape.
TapeLen == 2
\* Resolution of a raw value of the random source: raw values are 0..RawMax-1.
RawMax == 100
\* A request is received only while the source has consumed at most this many draws.
MaxPos == 1
\* Length of the free-form strings handed to the notation parser.
MaxLen == 2
\* Invocations the dispatch boundary keeps in flight on the event loop.
MaxInflight == 2

----------------------------------------------------------------------------
(* Python's str and int operations, as the handlers use them.              *)

Whitespace == {" ", "\t"}

Digits == <<"0", "1", "2", "3", "4", "5", "6", "7", "8", "9">>

Uppers == <<"A", "B", "C", "D", "E", "F", "G", "H", "I", "J", "K", "L", "M",
            "N", "O", "P", "Q", "R", "S", "T", "U", "V", "W", "X", "Y", "Z">>

Lowers == <<"a", "b", "c", "d", "e", "f", "g", "h", "i", "j", "k", "l", "m",
            "n", "o", "p", "q", "r", "s", "t", "u", "v", "w", "x", "y", "z">>

IndexOf(seq, c) == CHOOSE i \in 1..Len(seq) : seq[i] = c

IsIn(seq, c) == \E i \in 1..Len(seq) : seq[i] = c

IsDigit(c) == IsIn(Digits, c)

DigitVal(c) == IndexOf(Digits, c) - 1

\* str.lower()
lower(s) == [i \in 1..Len(s) |-> IF IsIn(Uppers, s[i]) THEN Lowers[IndexOf(Uppers, s[i])] ELSE s[i]]

\* str.capitalize(): first character upper case, the rest lower case
capitalize(s) ==
    [i \in 1..Len(s) |->
        IF i = 1
        THEN IF IsIn(Lowers, s[i]) THEN Uppers[IndexOf(Lowers, s[i])] ELSE s[i]
        ELSE lower(s)[i]]

\* str.strip(): leading and trailing whitespace removed
strip(s) ==
    LET keep == {i \in 1..Len(s) : s[i] \notin Whitespace}
    IN  IF keep = {} THEN <<>>
        ELSE LET a == CHOOSE i \in keep : \A j \in keep : i <= j
                 b == CHOOSE i \in keep : \A j \in keep : j <= i
             IN  SubSeq(s, a, b)

\* str.split(sep) for a one-character separator: the pieces between separators
split(s, sep) ==
    LET at == {i \in 1..Len(s) : s[i] = sep}
        n == Cardinality(at)
        \* the k-th separator; 0 and Len(s) + 1 stand for the two ends
        nth(k) == IF k = 0 THEN 0
                  ELSE IF k = n + 1 THEN Len(s) + 1
                  ELSE CHOOSE i \in at : Cardinality({j \in at : j < i}) = k - 1
    IN  [k \in 1..(n + 1) |-> SubSeq(s, nth(k - 1) + 1, nth(k) - 1)]

\* sep.join(pieces)
RECURSIVE join(_, _)
join(sep, pieces) ==
    IF Len(pieces) = 0 THEN <<>>
    ELSE IF Len(pieces) = 1 THEN pieces[1]
    ELSE LET h == Len(pieces) \div 2
         IN  join(sep, SubSeq(pieces, 1, h)) \o sep \o join(sep, SubSeq(pieces, h + 1, Len(pieces)))

\* value of a run of decimal digits, underscores skipped
RECURSIVE DigitsValue(_)
DigitsValue(s) ==
    IF Len(s) = 0 THEN 0
    ELSE IF s[Len(s)] = "_" THEN DigitsValue(SubSeq(s, 1, Len(s) - 1))
    ELSE 10 * DigitsValue(SubSeq(s, 1, Len(s) - 1)) + DigitVal(s[Len(s)])

\* the digit part of an int literal: digits, single underscores between digits
IsIntBody(s) ==
    /\ Len(s) > 0
    /\ IsDigit(s[1])
    /\ IsDigit(s[Len(s)])
    /\ \A i \in 1..Len(s) : IsDigit(s[i]) \/ s[i] = "_"
    /\ \A i \in 1..(Len(s) - 1) : ~(s[i] = "_" /\ s[i + 1] = "_")

\* int(s): surrounding whitespace ignored, optional sign, decimal digits;
\* ok = FALSE is the ValueError
int(s) ==
    LET t == strip(s)
        signed == Len(t) > 0 /\ t[1] \in {"+", "-"}
        body == IF signed THEN Tail(t) ELSE t
    IN  IF IsIntBody(body)
        THEN [ok |-> TRUE,
              val |-> IF signed /\ t[1] = "-" THEN 0 - DigitsValue(body) ELSE DigitsValue(body)]
        ELSE [ok |-> FALSE, val |-> 0]

\* str(n) for an integer
RECURSIVE NatStr(_)
NatStr(n) == IF n < 10 THEN <<Digits[n + 1]>> ELSE NatStr(n \div 10) \o <<Digits[(n % 10) + 1]>>

str(n) == IF n < 0 THEN <<"-">> \o NatStr(0 - n) ELSE NatStr(n)

\* sum(xs)
RECURSIVE sum(_)
sum(xs) ==
    IF Len(xs) = 0 THEN 0
    ELSE IF Len(xs) = 1 THEN xs[1]
    ELSE LET h == Len(xs) \div 2
         IN  sum(SubSeq(xs, 1, h)) + sum(SubSeq(xs, h + 1, Len(xs)))

\* f"{total / 6:.1f}": the quotient rounded to one decimal (10*total/6 is never
\* half way between two integers)
Avg1(total) ==
    LET tenths == (20 * total + 6) \div 12
    IN  str(tenths \div 10) \o <<".">> \o str(tenths % 10)

----------------------------------------------------------------------------
(* The random source and the utility functions.                            *)

\* The raw value the source yields k draws from now.
RawAt(r, k) == r.tape[((r.pos + k) % Len(r.tape)) + 1]

\* The source after n draws.
Advance(r, n) == [r EXCEPT !.pos = @ + n]

\* random.randint(lo, hi) on a raw value: an integer of the closed range lo..hi
randint(raw, lo, hi) == lo + (raw * (hi - lo)) \div (RawMax - 1)

\* random.choice(seq) on a raw value
choice(raw, seq) == seq[randint(raw, 1, Len(seq))]

\* Mutant of roll_single_die: the range starts at 0.
roll_single_die_FromZero(r, k, sides) == randint(RawAt(r, k), 0, sides)

\* roll_single_die(sides), k draws from now
roll_single_die(r, k, sides) == randint(RawAt(r, k), 1, sides)

\* The (None, None) of parse_dice_notation.
InvalidNotation == [valid |-> FALSE, count |-> 0, sides |-> 0]

\* Mutant of parse_dice_notation: the count has no upper limit.
parse_dice_notation_NoMaxCount(notation) ==
    LET n == lower(strip(notation))
        parts == split(n, "d")
    IN  IF ~IsIn(n, "d") THEN InvalidNotation
        ELSE IF Len(parts) # 2 THEN InvalidNotation
        ELSE LET count == IF Len(parts[1]) > 0 THEN int(parts[1]) ELSE [ok |-> TRUE, val |-> 1]
                 sides == int(parts[2])
             IN  IF ~count.ok \/ ~sides.ok THEN InvalidNotation
                 ELSE IF count.val < 1 THEN InvalidNotation
                 ELSE IF sides.val < 2 \/ sides.val > 1000 THEN InvalidNotation
                 ELSE [valid |-> TRUE, count |-> count.val, sides |-> sides.val]

parse_dice_notation(notation) ==
    LET n == lower(strip(notation))
        parts == split(n, "d")
    IN  IF ~IsIn(n, "d") THEN InvalidNotation
        ELSE IF Len(parts) # 2 THEN InvalidNotation
        ELSE LET count == IF Len(parts[1]) > 0 THEN int(parts[1]) ELSE [ok |-> TRUE, val |-> 1]
                 sides == int(parts[2])
             IN  IF ~count.ok \/ ~sides.ok THEN InvalidNotation    \* except: return None, None
                 ELSE IF count.val < 1 \/ count.val > 100 THEN InvalidNotation
                 ELSE IF sides.val < 2 \/ sides.val > 1000 THEN InvalidNotation
                 ELSE [valid |-> TRUE, count |-> count.val, sides |-> sides.val]

RollStrs(rolls) == [i \in 1..Len(rolls) |-> str(rolls[i])]

format_roll_result(rolls, total, notation) ==
    IF Len(rolls) = 1
    THEN <<":game_die:", " Rolled ">> \o notation \o <<": **">> \o str(total) \o <<"**">>
    ELSE <<":game_die:", " Rolled ">> \o notation \o <<": [">>
            \o join(<<",", " ">>, RollStrs(rolls)) \o <<"] = **">> \o str(total) \o <<"**">>

----------------------------------------------------------------------------
(* The eight handlers.  Each takes its string arguments and the random     *)
(* source r, and gives the returned text (out), the source after the call  *)
(* (rng) and the locals the text was rendered from.                        *)

\* The prefix of every error text.
ErrPrefix == ":x: Error:"

Error(r, msg) == [out |-> <<ErrPrefix>> \o msg, rng |-> r]

roll_dice(notation, r) ==
    IF Len(strip(notation)) = 0
    THEN Error(r, <<" Please specify dice notation (e.g., 1d20, 2d6)">>) @@ [rolls |-> <<>>, total |-> 0]
    ELSE LET p == parse_dice_notation(notation)
         IN  IF ~p.valid
             THEN Error(r, <<" Invalid dice notation. Use format like '1d20' or '2d6' (max 100 dice, 1000 sides)">>)
                      @@ [rolls |-> <<>>, total |-> 0]
             ELSE LET rolls == [i \in 1..p.count |-> roll_single_die(r, i - 1, p.sides)]
                      total == sum(rolls)
                  IN  [out |-> format_roll_result(rolls, total, notation),
                       rng |-> Advance(r, p.count), rolls |-> rolls, total |-> total]

CountOf(seq, x) == Cardinality({i \in 1..Len(seq) : seq[i] = x})

\* Mutant of flip_coin: a count of 0 passes the range check.
flip_coin_ZeroAllowed(count, r) ==
    LET n == IF Len(strip(count)) > 0 THEN int(count) ELSE [ok |-> TRUE, val |-> 1]
    IN  IF ~n.ok THEN Error(r, <<" Invalid count value: ">> \o count) @@ [flips |-> <<>>]
        ELSE IF n.val < 0 \/ n.val > 100
        THEN Error(r, <<" Count must be between 1 and 100">>) @@ [flips |-> <<>>]
        ELSE LET flips == [i \in 1..n.val |-> choice(RawAt(r, i - 1), <<"Heads", "Tails">>)]
             IN  [out |-> IF n.val = 1
                          THEN <<IF flips[1] = "Heads" THEN ":crown:" ELSE ":coin:">>
                                   \o <<" Coin flip: **", flips[1], "**">>
                          ELSE <<":coin:", " Flipped ">> \o str(n.val) \o <<" coins:", "\n">>
                                   \o join(<<",", " ">>, [i \in 1..n.val |-> <<flips[i]>>])
                                   \o <<"\n", "\n", "Summary: ">> \o str(CountOf(flips, "Heads"))
                                   \o <<" Heads, ">> \o str(CountOf(flips, "Tails")) \o <<" Tails">>,
                  rng |-> Advance(r, n.val), flips |-> flips]

flip_coin(count, r) ==
    LET n == IF Len(strip(count)) > 0 THEN int(count) ELSE [ok |-> TRUE, val |-> 1]
    IN  IF ~n.ok THEN Error(r, <<" Invalid count value: ">> \o count) @@ [flips |-> <<>>]
        ELSE IF n.val < 1 \/ n.val > 100
        THEN Error(r, <<" Count must be between 1 and 100">>) @@ [flips |-> <<>>]
        ELSE LET flips == [i \in 1..n.val |-> choice(RawAt(r, i - 1), <<"Heads", "Tails">>)]
             IN  [out |-> IF n.val = 1
                          THEN <<IF flips[1] = "Heads" THEN ":crown:" ELSE ":coin:">>
                                   \o <<" Coin flip: **", flips[1], "**">>
                          ELSE <<":coin:", " Flipped ">> \o str(n.val) \o <<" coins:", "\n">>
                                   \o join(<<",", " ">>, [i \in 1..n.val |-> <<flips[i]>>])
                                   \o <<"\n", "\n", "Summary: ">> \o str(CountOf(flips, "Heads"))
                                   \o <<" Heads, ">> \o str(CountOf(flips, "Tails")) \o <<" Tails">>,
                  rng |-> Advance(r, n.val), flips |-> flips]

Min(xs) == CHOOSE x \in {xs[i] : i \in 1..Len(xs)} : \A j \in 1..Len(xs) : x <= xs[j]

StatsText(title, stats) ==
    <<":game_die:", title, "\n">> \o join(<<",", " ">>, RollStrs(stats))
        \o <<"\n", "\n", "Total: ">> \o str(sum(stats)) \o <<" | Average: ">> \o Avg1(sum(stats))

roll_stats(method, r) ==
    LET m == lower(strip(method))
    IN  IF m = <<"s", "t", "a", "n", "d", "a", "r", "d">> \/ m = <<>>
        THEN \* 4d6, the lowest dropped: rolls.sort(); sum(rolls[1:])
             LET stats == [i \in 1..6 |->
                             LET rolls == [j \in 1..4 |-> roll_single_die(r, 4 * (i - 1) + j - 1, 6)]
                             IN  sum(rolls) - Min(rolls)]
             IN  [out |-> StatsText(" D&D Ability Scores (4d6 drop lowest):", stats),
                  rng |-> Advance(r, 24), stats |-> stats]
        ELSE IF m = <<"h", "e", "r", "o", "i", "c">>
        THEN LET stats == [i \in 1..6 |->
                             roll_single_die(r, 2 * (i - 1), 6) + roll_single_die(r, 2 * (i - 1) + 1, 6) + 6]
             IN  [out |-> StatsText(" D&D Ability Scores (2d6+6):", stats),
                  rng |-> Advance(r, 12), stats |-> stats]
        ELSE IF m = <<"s", "t", "r", "a", "i", "g", "h", "t">>
        THEN LET stats == [i \in 1..6 |->
                             sum([j \in 1..3 |-> roll_single_die(r, 3 * (i - 1) + j - 1, 6)])]
             IN  [out |-> StatsText(" D&D Ability Scores (3d6):", stats),
                  rng |-> Advance(r, 18), stats |-> stats]
        ELSE Error(r, <<" Invalid method. Use 'standard', 'heroic', or 'straight'">>) @@ [stats |-> <<>>]

Max2(a, b) == IF a >= b THEN a ELSE b

\* Mutant of Min2: the larger of the two.
Min2_Larger(a, b) == IF a <= b THEN b ELSE a

Min2(a, b) == IF a <= b THEN a ELSE b

NoRolls == [roll1 |-> 0, roll2 |-> 0, result |-> 0]

roll_with_advantage(sides, advantage_type, r) ==
    LET n == IF Len(strip(sides)) > 0 THEN int(sides) ELSE [ok |-> TRUE, val |-> 20]
    IN  IF ~n.ok THEN Error(r, <<" Invalid sides value: ">> \o sides) @@ NoRolls
        ELSE IF n.val < 2 \/ n.val > 1000
        THEN Error(r, <<" Sides must be between 2 and 1000">>) @@ NoRolls
        ELSE LET roll1 == roll_single_die(r, 0, n.val)
                 roll2 == roll_single_die(r, 1, n.val)
                 adv_type == lower(strip(advantage_type))
                 text(emoji, type_name, result) ==
                     <<emoji, " Rolling d">> \o str(n.val) \o <<" with ", type_name, ":", "\n", "Rolls: ">>
                         \o str(roll1) \o <<",", " ">> \o str(roll2) \o <<"\n", "Result: **">>
                         \o str(result) \o <<"**">>
             IN  IF adv_type = <<"a", "d", "v", "a", "n", "t", "a", "g", "e">> \/ adv_type = <<"a", "d", "v">>
                 THEN [out |-> text(":arrow_up:", "Advantage", Max2(roll1, roll2)), rng |-> Advance(r, 2),
                       roll1 |-> roll1, roll2 |-> roll2, result |-> Max2(roll1, roll2)]
                 ELSE IF \/ adv_type = <<"d", "i", "s", "a", "d", "v", "a", "n", "t", "a", "g", "e">>
                         \/ adv_type = <<"d", "i", "s">>
                         \/ adv_type = <<"d", "i", "s", "a", "d", "v">>
                 THEN [out |-> text(":arrow_down:", "Disadvantage", Min2(roll1, roll2)), rng |-> Advance(r, 2),
                       roll1 |-> roll1, roll2 |-> roll2, result |-> Min2(roll1, roll2)]
                 ELSE \* the two dice are already rolled when the type is rejected
                      Error(Advance(r, 2), <<" Type must be 'advantage' or 'disadvantage'">>)
                          @@ [roll1 |-> roll1, roll2 |-> roll2, result |-> 0]

percentile_roll(r) ==
    LET result == randint(RawAt(r, 0), 1, 100)
        quality == IF result <= 5 THEN "Critical Success! :star2:"
                   ELSE IF result <= 25 THEN "Success :white_check_mark:"
                   ELSE IF result <= 75 THEN "Moderate :bar_chart:"
                   ELSE IF result <= 95 THEN "Failure :x:"
                   ELSE "Critical Failure! :boom:"
    IN  [out |-> <<":game_die:", " Percentile Roll (d100): **">> \o str(result) \o <<"**", "\n", quality>>,
         rng |-> Advance(r, 1), result |-> result, quality |-> quality]

\* Mutant of InsertDesc: an entry is placed before the entries of equal total.
RECURSIVE InsertDesc_Unstable(_, _)
InsertDesc_Unstable(sorted, e) ==
    IF Len(sorted) = 0 THEN <<e>>
    ELSE IF sorted[1].total > e.total THEN <<sorted[1]>> \o InsertDesc_Unstable(Tail(sorted), e)
    ELSE <<e>> \o sorted

\* list.sort(key = total, reverse = True): a stable sort, an entry is placed
\* behind every entry whose total is at least its own
RECURSIVE InsertDesc(_, _)
InsertDesc(sorted, e) ==
    IF Len(sorted) = 0 THEN <<e>>
    ELSE IF sorted[1].total >= e.total THEN <<sorted[1]>> \o InsertDesc(Tail(sorted), e)
    ELSE <<e>> \o sorted

RECURSIVE SortDesc(_)
SortDesc(entries) ==
    IF Len(entries) = 0 THEN <<>>
    ELSE InsertDesc(SortDesc(SubSeq(entries, 1, Len(entries) - 1)), entries[Len(entries)])

\* f"+{bonus_val}" if bonus_val >= 0 else str(bonus_val)
BonusStr(bonus_val) == IF bonus_val >= 0 THEN <<"+">> \o str(bonus_val) ELSE str(bonus_val)

InitiativeLine(e, bonus_val) ==
    <<"Character ">> \o str(e.char_num) \o <<":", " ">> \o str(e.roll) \o <<" ">> \o BonusStr(bonus_val)
        \o <<" = **">> \o str(e.total) \o <<"**">>

roll_initiative(bonus, count, r) ==
    LET num_count == IF Len(strip(count)) > 0 THEN int(count) ELSE [ok |-> TRUE, val |-> 1]
        bonus_val == IF Len(strip(bonus)) > 0 THEN int(bonus) ELSE [ok |-> TRUE, val |-> 0]
    IN  IF ~num_count.ok \/ ~bonus_val.ok
        THEN Error(r, <<" Invalid number value">>) @@ [initiatives |-> <<>>]
        ELSE IF num_count.val < 1 \/ num_count.val > 20
        THEN Error(r, <<" Count must be between 1 and 20">>) @@ [initiatives |-> <<>>]
        ELSE IF bonus_val.val < -10 \/ bonus_val.val > 20
        THEN Error(r, <<" Bonus must be between -10 and +20">>) @@ [initiatives |-> <<>>]
        ELSE LET rolled == [i \in 1..num_count.val |->
                              [char_num |-> i,
                               roll |-> roll_single_die(r, i - 1, 20),
                               total |-> roll_single_die(r, i - 1, 20) + bonus_val.val]]
                 initiatives == SortDesc(rolled)
             IN  [out |-> IF num_count.val = 1
                          THEN <<":crossed_swords:", " Initiative: ">> \o str(initiatives[1].roll) \o <<" ">>
                                   \o BonusStr(bonus_val.val) \o <<" = **">> \o str(initiatives[1].total) \o <<"**">>
                          ELSE join(<<"\n">>, <<<<":crossed_swords:", " Initiative Order:">>>>
                                   \o [i \in 1..num_count.val |-> InitiativeLine(initiatives[i], bonus_val.val)]),
                  rng |-> Advance(r, num_count.val), initiatives |-> initiatives]

\* [opt.strip() for opt in pieces if opt.strip()]
NonBlank(opt) == Len(strip(opt)) > 0

StripNonEmpty(pieces) ==
    LET kept == SelectSeq(pieces, NonBlank)
    IN  [i \in 1..Len(kept) |-> strip(kept[i])]

\* Mutant of random_choice: a single option is enough.
random_choice_OneOption(options, r) ==
    IF Len(strip(options)) = 0
    THEN Error(r, <<" Please provide comma-separated options (e.g., 'attack, defend, flee')">>)
             @@ [choices |-> <<>>, selected |-> <<>>]
    ELSE LET choices == StripNonEmpty(split(options, ","))
         IN  IF Len(choices) < 1
             THEN Error(r, <<" Please provide at least 2 options separated by commas">>)
                      @@ [choices |-> choices, selected |-> <<>>]
             ELSE IF Len(choices) > 50
             THEN Error(r, <<" Maximum 50 options allowed">>) @@ [choices |-> choices, selected |-> <<>>]
             ELSE LET selected == choice(RawAt(r, 0), choices)
                  IN  [out |-> <<":dart:", " Random Choice:", "\n", "Options: ">> \o join(<<",", " ">>, choices)
                                   \o <<"\n", "Selected: **">> \o selected \o <<"**">>,
                       rng |-> Advance(r, 1), choices |-> choices, selected |-> selected]

random_choice(options, r) ==
    IF Len(strip(options)) = 0
    THEN Error(r, <<" Please provide comma-separated options (e.g., 'attack, defend, flee')">>)
             @@ [choices |-> <<>>, selected |-> <<>>]
    ELSE LET choices == StripNonEmpty(split(options, ","))
         IN  IF Len(choices) < 2
             THEN Error(r, <<" Please provide at least 2 options separated by commas">>)
                      @@ [choices |-> choices, selected |-> <<>>]
             ELSE IF Len(choices) > 50
             THEN Error(r, <<" Maximum 50 options allowed">>) @@ [choices |-> choices, selected |-> <<>>]
             ELSE LET selected == choice(RawAt(r, 0), choices)
                  IN  [out |-> <<":dart:", " Random Choice:", "\n", "Options: ">> \o join(<<",", " ">>, choices)
                                   \o <<"\n", "Selected: **">> \o selected \o <<"**">>,
                       rng |-> Advance(r, 1), choices |-> choices, selected |-> selected]

\* Mutant of LootQuality: the legendary thresholds are exclusive.
LootQuality_Exclusive(rarity_level, roll) ==
    IF rarity_level = <<"c", "o", "m", "m", "o", "n">> \/ rarity_level = <<>>
    THEN IF roll <= 60 THEN "Poor quality item"
         ELSE IF roll <= 90 THEN "Average quality item"
         ELSE "Good quality item"
    ELSE IF rarity_level = <<"u", "n", "c", "o", "m", "m", "o", "n">>
    THEN IF roll <= 50 THEN "Average quality item"
         ELSE IF roll <= 85 THEN "Good quality item"
         ELSE "Exceptional item! :sparkles:"
    ELSE IF rarity_level = <<"r", "a", "r", "e">>
    THEN IF roll <= 40 THEN "Good quality item"
         ELSE IF roll <= 80 THEN "Exceptional item! :sparkles:"
         ELSE "Masterwork item! :star:"
    ELSE IF roll < 30 THEN "Exceptional item! :sparkles:"
         ELSE IF roll < 70 THEN "Masterwork item! :star:"
         ELSE "Legendary artifact! :trophy:"

\* The quality band of a d100 roll, by the thresholds of the rarity tier.
LootQuality(rarity_level, roll) ==
    IF rarity_level = <<"c", "o", "m", "m", "o", "n">> \/ rarity_level = <<>>
    THEN IF roll <= 60 THEN "Poor quality item"
         ELSE IF roll <= 90 THEN "Average quality item"
         ELSE "Good quality item"
    ELSE IF rarity_level = <<"u", "n", "c", "o", "m", "m", "o", "n">>
    THEN IF roll <= 50 THEN "Average quality item"
         ELSE IF roll <= 85 THEN "Good quality item"
         ELSE "Exceptional item! :sparkles:"
    ELSE IF rarity_level = <<"r", "a", "r", "e">>
    THEN IF roll <= 40 THEN "Good quality item"
         ELSE IF roll <= 80 THEN "Exceptional item! :sparkles:"
         ELSE "Masterwork item! :star:"
    ELSE IF roll <= 30 THEN "Exceptional item! :sparkles:"
         ELSE IF roll <= 70 THEN "Masterwork item! :star:"
         ELSE "Legendary artifact! :trophy:"

Rarities == {<<"c", "o", "m", "m", "o", "n">>, <<>>, <<"u", "n", "c", "o", "m", "m", "o", "n">>,
             <<"r", "a", "r", "e">>, <<"l", "e", "g", "e", "n", "d", "a", "r", "y">>}

roll_loot(rarity, r) ==
    LET rarity_level == lower(strip(rarity))
    IN  IF rarity_level \in Rarities
        THEN LET roll == roll_single_die(r, 0, 100)
                 quality == LootQuality(rarity_level, roll)
             IN  [out |-> <<":gem:", " Loot Roll (">> \o capitalize(rarity_level) \o <<"):", "\n", "Roll: ">>
                              \o str(roll) \o <<"\n", "Result: ", quality>>,
                  rng |-> Advance(r, 1), roll |-> roll, quality |-> quality]
        ELSE Error(r, <<" Rarity must be 'common', 'uncommon', 'rare', or 'legendary'">>)
                 @@ [roll |-> 0, quality |-> "none"]

----------------------------------------------------------------------------
(* The argument strings the dispatch boundary hands to the handlers.       *)

\* Free-form strings of at most n glyphs.
RECURSIVE StringsUpTo(_, _)
StringsUpTo(alphabet, n) ==
    IF n = 0 THEN {<<>>}
    ELSE LET shorter == StringsUpTo(alphabet, n - 1)
         IN  shorter \cup {Append(s, c) : s \in shorter, c \in alphabet}

CountParts ==
    {<<>>, <<"0">>, <<"2">>, <<"1", "0", "0">>, <<"1", "0", "1">>, <<"a", "b", "c">>}

Separators ==
    {<<"d">>, <<"D">>, <<"d", "d">>}

SidesParts ==
    {<<>>, <<"1">>, <<"2">>, <<"6">>, <<"1", "0", "0", "0">>, <<"1", "0", "0", "1">>,
     <<"a", "b", "c">>}

CountArgs ==
    {<<>>, <<" ">>, <<"1">>, <<"2">>, <<"3">>, <<"1", "0", "0">>, <<"0">>, <<"1", "0", "1">>,
     <<"-", "1">>, <<"x">>, <<" ", "2", " ">>, <<"2", ".", "5">>}

MethodArgs ==
    {<<"s", "t", "a", "n", "d", "a", "r", "d">>, <<>>,
     <<" ", "S", "t", "a", "n", "d", "a", "r", "d">>, <<"h", "e", "r", "o", "i", "c">>,
     <<"H", "E", "R", "O", "I", "C">>, <<"s", "t", "r", "a", "i", "g", "h", "t">>,
     <<"b", "o", "g", "u", "s">>, <<"4", "d", "6">>}

SidesArgs ==
    {<<>>, <<"2", "0">>, <<"1">>, <<"2">>, <<"1", "0", "0", "0">>, <<"1", "0", "0", "1">>,
     <<"a", "b", "c">>}

TypeArgs ==
    {<<"a", "d", "v", "a", "n", "t", "a", "g", "e">>, <<"a", "d", "v">>,
     <<"d", "i", "s", "a", "d", "v", "a", "n", "t", "a", "g", "e">>, <<"d", "i", "s">>,
     <<"d", "i", "s", "a", "d", "v">>, <<" ", "A", "D", "V", " ">>, <<"b", "o", "g", "u", "s">>}

BonusArgs ==
    {<<>>, <<"5">>, <<"-", "1", "0">>, <<"-", "1", "1">>, <<"2", "0">>, <<"2", "1">>, <<"x">>}

InitiativeCountArgs ==
    {<<>>, <<"2">>, <<"3">>, <<"2", "0">>, <<"2", "1">>, <<"0">>, <<"x">>}

OptionArgs ==
    {<<>>, <<" ">>, <<",">>, <<" ", ",", " ", ",">>, <<"a">>, <<"a", ",">>,
     <<"a", ",", " ", "b", ",", " ", "c">>, <<"a", ",", ",", "b">>,
     <<" ", "x", " ", "y", " ", ",", "z">>, <<"b", ",", "a", ",", "b">>, <<"A", ",", "a">>}

RarityArgs ==
    {<<>>, <<" ">>, <<"c", "o", "m", "m", "o", "n">>, <<"u", "n", "c", "o", "m", "m", "o", "n">>,
     <<"r", "a", "r", "e">>, <<"l", "e", "g", "e", "n", "d", "a", "r", "y">>,
     <<" ", "L", "e", "g", "e", "n", "d", "a", "r", "y", " ">>, <<"R", "A", "R", "E">>,
     <<"e", "p", "i", "c">>, <<"r", "a", "r", "e", "s">>}

\* n options "a" separated by commas
ManyOptions(n) == join(<<",">>, [i \in 1..n |-> <<"a">>])

Notations ==
    {c \o sep \o s : c \in CountParts, sep \in Separators, s \in SidesParts}
        \cup StringsUpTo({"2", "d", " ", "-"}, MaxLen)

Requests ==
    {[op |-> "roll_dice", args |-> <<n>>] : n \in Notations}
        \cup {[op |-> "flip_coin", args |-> <<c>>] : c \in CountArgs}
        \cup {[op |-> "roll_stats", args |-> <<m>>] : m \in MethodArgs}
        \cup {[op |-> "roll_with_advantage", args |-> <<s, t>>] : s \in SidesArgs, t \in TypeArgs}
        \cup {[op |-> "percentile_roll", args |-> <<>>]}
        \cup {[op |-> "roll_initiative", args |-> <<b, c>>] : b \in BonusArgs, c \in InitiativeCountArgs}
        \cup {[op |-> "random_choice", args |-> <<o>>] : o \in OptionArgs \cup {ManyOptions(50), ManyOptions(51)}}
        \cup {[op |-> "roll_loot", args |-> <<r>>] : r \in RarityArgs}

----------------------------------------------------------------------------
(* The server: the dispatch boundary receives one request, calls the       *)
(* handler registered for it and delivers the text it returns.             *)

\* Raw values of the sampled seed tapes: the lowest, a middle and the highest.
RawSample == {0, RawMax \div 3, RawMax - 1}

\* The seeds: every raw value as a tape of its own, and the sampled tapes.
Seeds == {<<raw>> : raw \in 0..(RawMax - 1)} \cup [1..TapeLen -> RawSample]

NoRequest == [op |-> "none", args |-> <<>>]

NoCall == [op |-> "none"]

Init ==
    /\ rng \in {[tape |-> t, pos |-> 0] : t \in Seeds}
    /\ inflight = NoRequest
    /\ last = NoCall
    /\ tasks = <<>>
    /\ drawlog = <<>>

Receive ==
    /\ inflight.op = "none"
    /\ last.op = "none"
    /\ rng.pos <= MaxPos
    /\ \E req \in Requests : inflight' = req
    /\ UNCHANGED <<rng, last, tasks, drawlog>>

\* The handler returns ret: the source moves on, the text goes to the caller.
Return(ret) ==
    /\ last' = [op |-> inflight.op, args |-> inflight.args, rng0 |-> rng, ret |-> ret]
    /\ rng' = ret.rng
    /\ inflight' = NoRequest
    /\ UNCHANGED <<tasks, drawlog>>

RollDice ==
    /\ inflight.op = "roll_dice"
    /\ Return(roll_dice(inflight.args[1], rng))

FlipCoin ==
    /\ inflight.op = "flip_coin"
    /\ Return(flip_coin(inflight.args[1], rng))

RollStats ==
    /\ inflight.op = "roll_stats"
    /\ Return(roll_stats(inflight.args[1], rng))

RollWithAdvantage ==
    /\ inflight.op = "roll_with_advantage"
    /\ Return(roll_with_advantage(inflight.args[1], inflight.args[2], rng))

PercentileRoll ==
    /\ inflight.op = "percentile_roll"
    /\ Return(percentile_roll(rng))

RollInitiative ==
    /\ inflight.op = "roll_initiative"
    /\ Return(roll_initiative(inflight.args[1], inflight.args[2], rng))

RandomChoice ==
    /\ inflight.op = "random_choice"
    /\ Return(random_choice(inflight.args[1], rng))

RollLoot ==
    /\ inflight.op = "roll_loot"
    /\ Return(roll_loot(inflight.args[1], rng))

\* The text is written to the transport; the server is idle again.
Deliver ==
    /\ last.op # "none"
    /\ last' = NoCall
    /\ UNCHANGED <<rng, inflight, tasks, drawlog>>

Next ==
    \/ Receive
    \/ RollDice
    \/ FlipCoin
    \/ RollStats
    \/ RollWithAdvantage
    \/ PercentileRoll
    \/ RollInitiative
    \/ RandomChoice
    \/ RollLoot
    \/ Deliver

Spec == Init /\ [][Next]_vars

----------------------------------------------------------------------------
(* The event loop: the dispatch boundary keeps several invocations in      *)
(* flight; the loop runs one coroutine at a time, from where it stands to  *)
(* its next await or to its return.                                        *)

\* The handler registered under the request's name, called on source r.
Call(req, r) ==
    CASE req.op = "roll_dice" -> roll_dice(req.args[1], r)
      [] req.op = "flip_coin" -> flip_coin(req.args[1], r)
      [] req.op = "roll_stats" -> roll_stats(req.args[1], r)
      [] req.op = "roll_with_advantage" -> roll_with_advantage(req.args[1], req.args[2], r)
      [] req.op = "percentile_roll" -> percentile_roll(r)
      [] req.op = "roll_initiative" -> roll_initiative(req.args[1], req.args[2], r)
      [] req.op = "random_choice" -> random_choice(req.args[1], r)
      [] req.op = "roll_loot" -> roll_loot(req.args[1], r)

\* Mutant of AwaitPoints: every handler awaits after its first draw.
AwaitPoints_AfterFirstDraw(op) == {1}

\* The await expressions of a handler's body, each named by the number of
\* draws the body has taken when it reaches it: no handler awaits anything.
AwaitPoints(op) == {}

\* The number of draws the handler takes for these arguments.
DrawsOf(req) == Call(req, [tape |-> <<0>>, pos |-> 0]).rng.pos

LoopRequests ==
    {[op |-> "roll_dice", args |-> <<<<"2", "d", "6">>>>],
     [op |-> "roll_initiative", args |-> <<<<"5">>, <<"3">>>>],
     [op |-> "roll_loot", args |-> <<<<"r", "a", "r", "e">>>>],
     [op |-> "roll_with_advantage", args |-> <<<<"2", "0">>, <<"b", "o", "g", "u", "s">>>>],
     [op |-> "flip_coin", args |-> <<<<"x">>>>]}

\* Seeds whose first two raw values differ: a draw taken out of turn shows.
LoopSeeds == {t \in [1..TapeLen -> RawSample] : t[1] # t[2]}

InitLoop ==
    /\ rng \in {[tape |-> t, pos |-> 0] : t \in LoopSeeds}
    /\ inflight = NoRequest
    /\ last = NoCall
    /\ tasks = <<>>
    /\ drawlog = <<>>

\* The dispatch boundary creates the coroutine of one more invocation.
Submit ==
    /\ Len(tasks) < MaxInflight
    /\ \E req \in LoopRequests :
           tasks' = Append(tasks, [req |-> req, state |-> "pending", start |-> 0, raws |-> <<>>, out |-> <<>>])
    /\ UNCHANGED <<rng, inflight, last, drawlog>>

\* Coroutine i, whose body takes n draws in all, runs from where it stands to
\* its next await or to its return, drawing from the shared source.
Resume(i, n) ==
    LET t == tasks[i]
        k == Len(t.raws)
        stops == {a \in AwaitPoints(t.req.op) : k < a /\ a < n}
        upto == IF stops = {} THEN n ELSE CHOOSE a \in stops : \A b \in stops : a <= b
        raws == t.raws \o [j \in 1..(upto - k) |-> RawAt(rng, j - 1)]
    IN  /\ rng' = Advance(rng, upto - k)
        /\ drawlog' = drawlog \o [j \in 1..(upto - k) |-> i]
        /\ tasks' = [tasks EXCEPT ![i] =
               [req |-> t.req,
                state |-> IF upto = n THEN "done" ELSE "suspended",
                start |-> IF t.state = "pending" THEN rng.pos ELSE t.start,
                raws |-> raws,
                out |-> IF upto = n THEN Call(t.req, [tape |-> raws \o <<0>>, pos |-> 0]).out ELSE <<>>]]

\* The loop picks a coroutine that is ready and resumes it.
RunTask(i) ==
    /\ tasks[i].state \in {"pending", "suspended"}
    /\ Resume(i, DrawsOf(tasks[i].req))
    /\ UNCHANGED <<inflight, last>>

Run == \E i \in 1..Len(tasks) : RunTask(i)

NextLoop ==
    \/ Submit
    \/ Run

SpecLoop == InitLoop /\ [][NextLoop]_vars

----------------------------------------------------------------------------
(* Properties.                                                             *)

StartsWithError(out) == Len(out) > 0 /\ out[1] = ":x: Error:"

Blank(s) == \A i \in 1..Len(s) : s[i] \in Whitespace

\* The glyphs of s before and after its only "d".
BeforeD(s) == SubSeq(s, 1, (CHOOSE i \in 1..Len(s) : s[i] = "d") - 1)

AfterD(s) == SubSeq(s, (CHOOSE i \in 1..Len(s) : s[i] = "d") + 1, Len(s))

\* The notation, trimmed and lowercased, has exactly one "d"; the count part is
\* empty or an integer of 1..100 and the sides part is an integer of 2..1000.
WellFormedNotation(notation) ==
    LET n == lower(strip(notation))
    IN  /\ Cardinality({i \in 1..Len(n) : n[i] = "d"}) = 1
        /\ \/ Len(BeforeD(n)) = 0
           \/ int(BeforeD(n)).ok /\ int(BeforeD(n)).val \in 1..100
        /\ int(AfterD(n)).ok /\ int(AfterD(n)).val \in 2..1000

NotationCount(notation) ==
    LET n == lower(strip(notation)) IN IF Len(BeforeD(n)) = 0 THEN 1 ELSE int(BeforeD(n)).val

NotationSides(notation) == int(AfterD(lower(strip(notation)))).val

\* C1: for a notation the parser accepts as (C, S), roll_dice draws exactly C
\* values, each in 1..S, reports them in draw order, and the reported total is
\* their sum.
C1_RollDice ==
    (last.op = "roll_dice" /\ parse_dice_notation(last.args[1]).valid) =>
        LET C == parse_dice_notation(last.args[1]).count
            S == parse_dice_notation(last.args[1]).sides
            ret == last.ret
            drawn == [i \in 1..C |-> 1 + (RawAt(last.rng0, i - 1) * (S - 1)) \div (RawMax - 1)]
        IN  /\ C \in 1..100 /\ S \in 2..1000
            /\ ret.rng.pos = last.rng0.pos + C
            /\ Len(ret.rolls) = C
            /\ \A i \in 1..C : ret.rolls[i] \in 1..S
            /\ ret.rolls = drawn
            /\ ret.total = sum(drawn)
            /\ ret.out = IF C = 1
                         THEN <<":game_die:", " Rolled ">> \o last.args[1] \o <<": **">> \o str(sum(drawn)) \o <<"**">>
                         ELSE <<":game_die:", " Rolled ">> \o last.args[1] \o <<": [">>
                                  \o join(<<",", " ">>, [i \in 1..C |-> str(drawn[i])])
                                  \o <<"] = **">> \o str(sum(drawn)) \o <<"**">>

\* C1 witness: 2d6 rolled a 1 and then a 6.
C1_Witness ==
    /\ last.op = "roll_dice"
    /\ last.args[1] = <<"2", "d", "6">>
    /\ last.ret.rolls = <<1, 6>>
    /\ last.ret.total = 7

InvalidNotationText ==
    <<":x: Error:", " Invalid dice notation. Use format like '1d20' or '2d6' (max 100 dice, 1000 sides)">>

\* The parser's side of C2: it accepts exactly the well-formed notations, with
\* their count and sides, and gives (None, None) for every other string.
ParserAccepts(notation) ==
    IF WellFormedNotation(notation)
    THEN parse_dice_notation(notation) =
             [valid |-> TRUE, count |-> NotationCount(notation), sides |-> NotationSides(notation)]
    ELSE parse_dice_notation(notation) = [valid |-> FALSE, count |-> 0, sides |-> 0]

\* C2 as claimed: the parser accepts exactly the well-formed notations, and
\* roll_dice turns every other input into the invalid-notation error text.
C2_Original ==
    last.op = "roll_dice" =>
        /\ ParserAccepts(last.args[1])
        /\ ~WellFormedNotation(last.args[1]) => last.ret.out = InvalidNotationText

\* C2 as amended: the parser accepts exactly the well-formed notations; roll_dice
\* turns every other input that is not blank into the invalid-notation error
\* text, and answers a blank input with the please-specify error text; neither
\* draws from the random source.
C2_Amended ==
    last.op = "roll_dice" =>
        /\ ParserAccepts(last.args[1])
        /\ (~WellFormedNotation(last.args[1]) /\ ~Blank(last.args[1])) =>
               /\ last.ret.out = InvalidNotationText
               /\ last.ret.rng = last.rng0
        /\ Blank(last.args[1]) =>
               /\ last.ret.out = <<":x: Error:", " Please specify dice notation (e.g., 1d20, 2d6)">>
               /\ last.ret.rng = last.rng0

\* C2 witness: 101d6 has one separator and numeric parts, and is rejected.
C2_Witness ==
    /\ last.op = "roll_dice"
    /\ last.args[1] = <<"1", "0", "1", "d", "6">>
    /\ ~parse_dice_notation(last.args[1]).valid
    /\ last.ret.out = InvalidNotationText

\* A numeric argument that is blank (the default) or an integer of lo..hi.
NumberOk(arg, lo, hi) == Blank(arg) \/ (int(arg).ok /\ int(arg).val >= lo /\ int(arg).val <= hi)

\* The comma-separated pieces of options that are not blank, trimmed, in input order.
RECURSIVE Pieces(_)
Pieces(options) ==
    IF ~IsIn(options, ",")
    THEN IF Blank(options) THEN <<>> ELSE <<strip(options)>>
    ELSE LET k == CHOOSE i \in 1..Len(options) : options[i] = "," /\ \A j \in (i + 1)..Len(options) : options[j] # ","
             head == Pieces(SubSeq(options, 1, k - 1))
             tail == SubSeq(options, k + 1, Len(options))
         IN  IF Blank(tail) THEN head ELSE Append(head, strip(tail))

\* The arguments are well formed, in range and of a recognized name.
ArgsOk(op, args) ==
    CASE op = "roll_dice" -> WellFormedNotation(args[1])
      [] op = "flip_coin" -> NumberOk(args[1], 1, 100)
      [] op = "roll_stats" ->
             lower(strip(args[1])) \in {<<"s", "t", "a", "n", "d", "a", "r", "d">>, <<>>,
                                        <<"h", "e", "r", "o", "i", "c">>,
                                        <<"s", "t", "r", "a", "i", "g", "h", "t">>}
      [] op = "roll_with_advantage" ->
             /\ NumberOk(args[1], 2, 1000)
             /\ lower(strip(args[2])) \in {<<"a", "d", "v", "a", "n", "t", "a", "g", "e">>, <<"a", "d", "v">>,
                                           <<"d", "i", "s", "a", "d", "v", "a", "n", "t", "a", "g", "e">>,
                                           <<"d", "i", "s">>, <<"d", "i", "s", "a", "d", "v">>}
      [] op = "percentile_roll" -> TRUE
      [] op = "roll_initiative" -> NumberOk(args[1], -10, 20) /\ NumberOk(args[2], 1, 20)
      [] op = "random_choice" -> Len(Pieces(args[1])) \in 2..50
      [] op = "roll_loot" ->
             lower(strip(args[1])) \in {<<"c", "o", "m", "m", "o", "n">>, <<>>,
                                        <<"u", "n", "c", "o", "m", "m", "o", "n">>, <<"r", "a", "r", "e">>,
                                        <<"l", "e", "g", "e", "n", "d", "a", "r", "y">>}

\* C3: every invocation of every handler returns a text; the text begins with
\* the error prefix exactly when an argument is malformed, out of range or an
\* unrecognized name, so no successful result begins with it.
C3_ErrorText ==
    last.op # "none" =>
        /\ Len(last.ret.out) > 0
        /\ StartsWithError(last.ret.out) <=> ~ArgsOk(last.op, last.args)

\* C3 witness: flip_coin("2.5") is answered with an error text.
C3_Witness ==
    /\ last.op = "flip_coin"
    /\ last.args[1] = <<"2", ".", "5">>
    /\ StartsWithError(last.ret.out)

\* C4: for a count N of 1..20 and a bonus B of -10..20, roll_initiative gives N
\* entries, one per participant 1..N, each with the raw roll drawn for that
\* participant, in 1..20, and total = raw roll + B; the entries stand in
\* non-increasing order of total, equal totals in increasing participant order,
\* and are displayed in that order.
C4_Initiative ==
    (last.op = "roll_initiative" /\ NumberOk(last.args[1], -10, 20) /\ NumberOk(last.args[2], 1, 20)) =>
        LET N == IF Blank(last.args[2]) THEN 1 ELSE int(last.args[2]).val
            B == IF Blank(last.args[1]) THEN 0 ELSE int(last.args[1]).val
            es == last.ret.initiatives
            shown(e) == <<"Character ">> \o str(e.char_num) \o <<":", " ">> \o str(e.roll) \o <<" ">>
                            \o (IF B >= 0 THEN <<"+">> \o str(B) ELSE str(B)) \o <<" = **">>
                            \o str(e.total) \o <<"**">>
        IN  /\ Len(es) = N
            /\ \A p \in 1..N : Cardinality({i \in 1..N : es[i].char_num = p}) = 1
            /\ \A i \in 1..N :
                   /\ es[i].roll \in 1..20
                   /\ es[i].roll = 1 + (RawAt(last.rng0, es[i].char_num - 1) * 19) \div (RawMax - 1)
                   /\ es[i].total = es[i].roll + B
            /\ \A i \in 1..(N - 1) :
                   \/ es[i].total > es[i + 1].total
                   \/ es[i].total = es[i + 1].total /\ es[i].char_num < es[i + 1].char_num
            /\ N > 1 => last.ret.out =
                   join(<<"\n">>, <<<<":crossed_swords:", " Initiative Order:">>>> \o [i \in 1..N |-> shown(es[i])])

\* C4 witness: three participants, the first and the third tie below the second.
C4_Witness ==
    /\ last.op = "roll_initiative"
    /\ Len(last.ret.initiatives) = 3
    /\ last.ret.initiatives[1].char_num = 2
    /\ last.ret.initiatives[2].char_num = 1
    /\ last.ret.initiatives[3].char_num = 3
    /\ last.ret.initiatives[2].total = last.ret.initiatives[3].total

\* The band of roll r under thresholds a < b.
Band(r, a, b, low, mid, high) == IF r <= a THEN low ELSE IF r <= b THEN mid ELSE high

\* C5: roll_loot maps the d100 roll to the band of the tier's thresholds, and
\* any rarity outside the four names is an error without a roll or a band.
C5_Loot ==
    last.op = "roll_loot" =>
        LET tier == lower(strip(last.args[1]))
            r == last.ret.roll
            q == last.ret.quality
        IN  IF tier = <<"c", "o", "m", "m", "o", "n">> \/ tier = <<>>
            THEN r \in 1..100 /\ q = Band(r, 60, 90, "Poor quality item", "Average quality item", "Good quality item")
            ELSE IF tier = <<"u", "n", "c", "o", "m", "m", "o", "n">>
            THEN r \in 1..100
                 /\ q = Band(r, 50, 85, "Average quality item", "Good quality item", "Exceptional item! :sparkles:")
            ELSE IF tier = <<"r", "a", "r", "e">>
            THEN r \in 1..100
                 /\ q = Band(r, 40, 80, "Good quality item", "Exceptional item! :sparkles:", "Masterwork item! :star:")
            ELSE IF tier = <<"l", "e", "g", "e", "n", "d", "a", "r", "y">>
            THEN r \in 1..100
                 /\ q = Band(r, 30, 70, "Exceptional item! :sparkles:", "Masterwork item! :star:",
                             "Legendary artifact! :trophy:")
            ELSE /\ StartsWithError(last.ret.out)
                 /\ q = "none"
                 /\ last.ret.rng = last.rng0

\* C5 witness: a legendary roll of 30, the last of the exceptional band.
C5_Witness ==
    /\ last.op = "roll_loot"
    /\ lower(strip(last.args[1])) = <<"l", "e", "g", "e", "n", "d", "a", "r", "y">>
    /\ last.ret.roll = 30
    /\ last.ret.quality = "Exceptional item! :sparkles:"

\* C6: random_choice lists the trimmed non-empty pieces between the commas; with
\* fewer than 2 or more than 50 of them it returns an error, draws nothing and
\* selects nothing; otherwise the selected item is one of the list, and the
\* echoed option list is that list in input order.
C6_RandomChoice ==
    last.op = "random_choice" =>
        LET items == Pieces(last.args[1])
            ret == last.ret
        IN  IF Len(items) < 2 \/ Len(items) > 50
            THEN /\ StartsWithError(ret.out)
                 /\ ret.selected = <<>>
                 /\ ret.rng = last.rng0
            ELSE /\ ret.choices = items
                 /\ \E i \in 1..Len(items) : ret.selected = items[i]
                 /\ ret.rng.pos = last.rng0.pos + 1
                 /\ ret.out = <<":dart:", " Random Choice:", "\n", "Options: ">> \o join(<<",", " ">>, items)
                                  \o <<"\n", "Selected: **">> \o ret.selected \o <<"**">>

\* C6 witness: of "a, b, c" the last option is selected.
C6_Witness ==
    /\ last.op = "random_choice"
    /\ last.args[1] = <<"a", ",", " ", "b", ",", " ", "c">>
    /\ last.ret.choices = <<<<"a">>, <<"b">>, <<"c">>>>
    /\ last.ret.selected = <<"c">>

\* C7: for sides S of 2..1000 both rolls of roll_with_advantage are in 1..S;
\* with advantage the result is the larger of the two, with disadvantage the
\* smaller, and it is always one of the two rolls.
C7_Advantage ==
    (last.op = "roll_with_advantage" /\ NumberOk(last.args[1], 2, 1000)) =>
        LET S == IF Blank(last.args[1]) THEN 20 ELSE int(last.args[1]).val
            t == lower(strip(last.args[2]))
            ret == last.ret
        IN  /\ ret.roll1 \in 1..S
            /\ ret.roll2 \in 1..S
            /\ t \in {<<"a", "d", "v", "a", "n", "t", "a", "g", "e">>, <<"a", "d", "v">>} =>
                   /\ ret.result >= ret.roll1
                   /\ ret.result >= ret.roll2
                   /\ ret.result \in {ret.roll1, ret.roll2}
                   /\ ~StartsWithError(ret.out)
            /\ t \in {<<"d", "i", "s", "a", "d", "v", "a", "n", "t", "a", "g", "e">>, <<"d", "i", "s">>,
                      <<"d", "i", "s", "a", "d", "v">>} =>
                   /\ ret.result <= ret.roll1
                   /\ ret.result <= ret.roll2
                   /\ ret.result \in {ret.roll1, ret.roll2}
                   /\ ~StartsWithError(ret.out)

\* C7 witness: a d1000 rolled with disadvantage gives 1000 and 1, the result is 1.
C7_Witness ==
    /\ last.op = "roll_with_advantage"
    /\ last.args = <<<<"1", "0", "0", "0">>, <<"d", "i", "s">>>>
    /\ last.ret.roll1 = 1000
    /\ last.ret.roll2 = 1
    /\ last.ret.result = 1

\* C9 as claimed: an invocation that returns an error text has consumed no draw,
\* so it leaves the random source as it found it.
C9_NoDrawOnError ==
    (last.op # "none" /\ StartsWithError(last.ret.out)) => last.ret.rng = last.rng0

\* The positions of the draw stream that coroutine i took.
DrawsBy(i) == {p \in 1..Len(drawlog) : drawlog[p] = i}

\* C10: with several invocations in flight no coroutine is ever left suspended
\* between two of its steps; the draws of a finished invocation are one
\* contiguous block of the draw stream, and its result is the one the handler
\* gives for its arguments when run alone from the block's first position.
C10_RunToCompletion ==
    \A i \in 1..Len(tasks) :
        /\ tasks[i].state \in {"pending", "done"}
        /\ tasks[i].state = "pending" => DrawsBy(i) = {}
        /\ tasks[i].state = "done" =>
               /\ DrawsBy(i) = (tasks[i].start + 1)..(tasks[i].start + Len(tasks[i].raws))
               /\ tasks[i].out = Call(tasks[i].req, [tape |-> rng.tape, pos |-> tasks[i].start]).out

\* C10 witness: two invocations were in flight, the second ran first, and each
\* took two draws.
C10_Witness ==
    /\ Len(tasks) >= 2
    /\ tasks[1].state = "done"
    /\ tasks[2].state = "done"
    /\ tasks[2].start = 0
    /\ tasks[1].start = 2
    /\ Len(tasks[1].raws) = 2

====
